---- MODULE Spec2Model ----
(***************************************************************************)
(* A model of opsimsummary/opsim_out.py: the OpSimOutput class, which      *)
(* reads the Proposal and Summary tables of an OpSim database, picks the   *)
(* proposals of a subset, drops duplicate pointings and keeps the result   *)
(* as a catalog that can be written to hdf.                                *)
(*                                                                         *)
(* A pandas DataFrame is a record [cols, rows]: the set of column names    *)
(* and the sequence of rows, each row a function from the column names     *)
(* (and IDX, the row's index label) to integers.  A python dict is a       *)
(* function, a python list a sequence, None the empty option <<>> and a    *)
(* value x that may be None the option <<x>>.  A proposal name is a        *)
(* sequence of tokens, so that python's substring test `lit in name` is    *)
(* a contiguous-subsequence test.  Angles are integers: thousandths of a   *)
(* radian where the version logs radians, degrees where it logs degrees.   *)
(***************************************************************************)
EXTENDS Integers, Sequences, FiniteSets, TLC

VARIABLES
    dbVersion,    \* the OpSim version that wrote the database
    dbProposal,   \* the database's Proposal table, in storage order
    dbSummary,    \* the database's summary table, in storage order
    args,         \* <<the arguments of the construction call made>>
    outcome,      \* "idle", "ok", or the exception that ended construction
    roleMap,      \* <<get_propIDDict's dict>> once it has been computed
    derived,      \* <<propIDVals' list>> once it has been computed
    fetched,      \* <<the frame the storage read returned>> once read
    obj,          \* <<the OpSimOutput instance>> once constructed
    hdf,          \* the keys written to the hdf file so far, in order
    writeOutcome, \* "none", "ok", or the exception writeOpSimHDF raised
    dedupe        \* <<the frame given to dropDuplicates and what its calls
                  \* returned>> once dropDuplicates has been called by itself

vars == <<dbVersion, dbProposal, dbSummary, args, outcome, roleMap,
          derived, fetched, obj, hdf, writeOutcome, dedupe>>

----------------------------------------------------------------------------
(* Bounds of the model. *)

\* the longest summary table
MaxRows == 2
\* the longest Proposal table
MaxProps == 2

\* the pointing IDs, proposal IDs and exposure times that occur in tables
PointingIDs == {100, 101}
PropIDs == {1, 2, 3}
ExpMJDs == {1, 2}

----------------------------------------------------------------------------
(* python and pandas values *)

None == <<>>
Some(x) == <<x>>
IsNone(o) == o = <<>>
Get(o) == o[1]

\* the pseudo-column holding a row's index label
IDX == "(index)"

Range(s) == {s[i] : i \in DOMAIN s}

Min(S) == CHOOSE m \in S : \A x \in S : m <= x

SeqsUpTo(S, n) == UNION {[1..k -> S] : k \in 0..n}

\* python's `lit in name` on strings, names being token sequences
Contains(lit, name) ==
    \E i \in 0..(Len(name) - Len(lit)) :
        \A j \in 1..Len(lit) : name[i + j] = lit[j]

\* np.radians on whole degrees, in thousandths of a radian
Radians(deg) == (deg * 3141593) \div 180000

\* a frame: its column names and its rows in order
Frame(cols, rows) == [cols |-> cols, rows |-> rows]

\* the row with column c set to v (added when absent)
WithCol(row, c, v) ==
    [k \in DOMAIN row \cup {c} |-> IF k = c THEN v ELSE row[k]]

\* the row without column c
WithoutCol(row, c) == [k \in DOMAIN row \ {c} |-> row[k]]

\* df[c], the values of a column in row order
Column(df, c) == [i \in DOMAIN df.rows |-> df.rows[i][c]]

\* df.loc[mask, c] = v, mask being a set of row positions
SetWhere(df, mask, c, v) ==
    [df EXCEPT !.rows =
        [i \in DOMAIN df.rows |->
            IF i \in mask THEN WithCol(df.rows[i], c, v) ELSE df.rows[i]]]

\* df[c] == v as the set of row positions
Mask(df, c, v) == {i \in DOMAIN df.rows : df.rows[i][c] = v}

----------------------------------------------------------------------------
(* The version-dependent names *)

Versions == {"lsstv3", "sstf", "lsstv4"}

get_allowed_subsets == {"_all", "ddf", "wfd", "combined", "unique_all"}

get_opsimVariablesForVersion(opsimversion) ==
    IF opsimversion = "lsstv3" THEN
        [summaryTableName |-> "Summary",
         obsHistID |-> "obsHistID",
         propName |-> "propConf",
         propIDName |-> "propID",
         propIDNameInSummary |-> "propID",
         ops_wfdname |-> <<"conf/survey/", "Universal-18-0824B", ".conf">>,
         ops_ddfname |-> <<"conf/survey/", "DDcosmology1", ".conf">>,
         expMJD |-> "expMJD",
         FWHMeff |-> "FWHMeff",
         pointingRA |-> "ditheredRA",
         pointingDec |-> "pointingDec",
         filtSkyBrightness |-> "filtSkyBrightness",
         angleUnits |-> "radians"]
    ELSE IF opsimversion = "sstf" THEN
        [summaryTableName |-> "SummaryAllProps",
         obsHistID |-> "observationId",
         propName |-> "propName",
         propIDName |-> "propId",
         propIDNameInSummary |-> "proposalId",
         ops_wfdname |-> <<"WideFastDeep">>,
         ops_ddfname |-> <<"Deep", " ", "Drilling">>,
         expMJD |-> "observationStartMJD",
         FWHMeff |-> "seeingFwhmEff",
         pointingRA |-> "fieldRA",
         pointingDec |-> "fieldDec",
         filtSkyBrightness |-> "skyBrightness",
         angleUnits |-> "degrees"]
    ELSE
        [summaryTableName |-> "SummaryAllProps",
         obsHistID |-> "observationId",
         propName |-> "propName",
         propIDName |-> "propId",
         propIDNameInSummary |-> "proposalId",
         ops_wfdname |-> <<"WideFastDeep">>,
         ops_ddfname |-> <<"Deep", "Drilling", "Cosmology1">>,
         expMJD |-> "observationStartMJD",
         FWHMeff |-> "seeingFwhmEff",
         pointingRA |-> "fieldRA",
         pointingDec |-> "fieldDec",
         filtSkyBrightness |-> "skyBrightness",
         angleUnits |-> "degrees"]

\* the names get_propIDDict gives the two roles
oss_wfdName == <<"wfd">>
oss_ddfName == <<"ddf">>

----------------------------------------------------------------------------
(* get_propIDDict *)

\* the loop of lines 384-391: the names relabelled in place
RelabelProposals(df, opsimversion) ==
    LET ov == get_opsimVariablesForVersion(opsimversion)
        relabel(row) ==
            IF Contains(ov.ops_wfdname, row[ov.propName])
            THEN WithCol(row, ov.propName, oss_wfdName)
            ELSE IF Contains(ov.ops_ddfname, row[ov.propName])
            THEN WithCol(row, ov.propName, oss_ddfName)
            ELSE row
    IN [df EXCEPT !.rows = [i \in DOMAIN df.rows |-> relabel(df.rows[i])]]

\* a dict that kept the first of several rows with the same key
DictKeepsFirst(S) == CHOOSE i \in S : \A j \in S : i <= j

\* which of several rows with the same key dict(series) keeps: the last
DictKeeps(S) == CHOOSE i \in S : \A j \in S : j <= i

\* dict(df.set_index(keycol)[valcol])
DictOfSeries(df, keycol, valcol) ==
    LET keys == Column(df, keycol)
    IN [k \in Range(keys) |->
            df.rows[DictKeeps({i \in DOMAIN keys : keys[i] = k})][valcol]]

get_propIDDict(proposalDF, opsimversion) ==
    LET ov == get_opsimVariablesForVersion(opsimversion)
    IN DictOfSeries(RelabelProposals(proposalDF, opsimversion),
                    ov.propName, ov.propIDName)

HasRole(d, role) == role \in DOMAIN d

----------------------------------------------------------------------------
(* What a call returns: a value, or the exception it raised *)

Ok(v) == [err |-> "", val |-> v]
Raise(e) == [err |-> e, val |-> <<>>]

KeyError(k) ==
    IF k = "ddf" THEN "KeyError: 'ddf'"
    ELSE IF k = "wfd" THEN "KeyError: 'wfd'"
    ELSE "KeyError: 'index'"

\* a lookup of a role in propIDDict failed
UnknownRole(e) == e \in {KeyError("ddf"), KeyError("wfd")}

----------------------------------------------------------------------------
(* propIDVals and _overrideSubsetPropID *)

\* proposalTable.propID.values: attribute access to the column propID
PropIDAttribute(proposalTable) ==
    IF "propID" \in proposalTable.cols
    THEN Ok(Some(Column(proposalTable, "propID")))
    ELSE Raise("AttributeError: propID")

propIDVals(subset, propIDDict, proposalTable) ==
    IF subset \in {"ddf", "wfd"} THEN
        IF HasRole(propIDDict, <<subset>>)
        THEN Ok(Some(<<propIDDict[<<subset>>]>>))
        ELSE Raise(KeyError(subset))
    ELSE IF subset = "combined" THEN
        IF ~HasRole(propIDDict, oss_ddfName) THEN Raise(KeyError("ddf"))
        ELSE IF ~HasRole(propIDDict, oss_wfdName) THEN Raise(KeyError("wfd"))
        ELSE Ok(Some(<<propIDDict[oss_ddfName], propIDDict[oss_wfdName]>>))
    ELSE IF subset \in {"_all", "unique_all"} THEN
        IF IsNone(proposalTable) THEN Ok(None)
        ELSE PropIDAttribute(Get(proposalTable))
    ELSE Raise("NotImplementedError")

\* np.asarray(x).sort(): sorts the new array in place and returns None
NdarraySort(x) == None

_overrideSubsetPropID(propIDs, _propIDs) ==
    IF IsNone(propIDs) THEN Ok(_propIDs)
    ELSE IF NdarraySort(propIDs) # NdarraySort(_propIDs)
         THEN Raise("Warning")
         ELSE Ok(propIDs)

----------------------------------------------------------------------------
(* The storage reads and the frame operations fromOpSimDB uses *)

\* rows as a fresh frame has them: labelled 0, 1, ... in order
Relabelled(rows) == [i \in DOMAIN rows |-> WithCol(rows[i], IDX, i - 1)]

\* pd.read_sql_table: every row, in storage order
read_sql_table(table) == Frame(table.cols, Relabelled(table.rows))

\* pd.read_sql_query of SELECT * FROM table WHERE col in (pids)
read_sql_query(table, col, pids) ==
    LET wanted(row) == row[col] \in Range(pids)
    IN Frame(table.cols, Relabelled(SelectSeq(table.rows, wanted)))

\* the dict of lines 172-179, as the set of its (old, new) pairs
replacedict(ov) ==
    {<<ov.obsHistID, "obsHistID">>,
     <<ov.propIDNameInSummary, "propID">>,
     <<ov.pointingRA, "ditheredRA">>,
     <<ov.pointingDec, "ditheredDec">>,
     <<ov.expMJD, "expMJD">>,
     <<ov.FWHMeff, "FWHMeff">>,
     <<ov.filtSkyBrightness, "filtSkyBrightness">>}

\* summary.rename(columns=d): columns that are no key of d keep their name
rename(df, d) ==
    LET new(c) == IF \E pr \in d : pr[1] = c
                  THEN (CHOOSE pr \in d : pr[1] = c)[2] ELSE c
        old(row, k) == CHOOSE c \in DOMAIN row : new(c) = k
        renamed(row) ==
            [k \in {new(c) : c \in DOMAIN row} |-> row[old(row, k)]]
    IN Frame({new(c) : c \in df.cols},
             [i \in DOMAIN df.rows |-> renamed(df.rows[i])])

\* df.reset_index(): the labels become a column, named index unless taken
reset_index(df) ==
    LET name == IF "index" \in df.cols THEN "level_0" ELSE "index"
    IN Frame(df.cols \cup {name},
             [i \in DOMAIN df.rows |->
                 WithCol(WithCol(df.rows[i], name, df.rows[i][IDX]),
                         IDX, i - 1)])

\* the rows at the positions of S, in order
RECURSIVE RowsAt(_, _, _)
RowsAt(rows, S, i) ==
    IF i > Len(rows) THEN <<>>
    ELSE (IF i \in S THEN <<rows[i]>> ELSE <<>>) \o RowsAt(rows, S, i + 1)

\* the positions keep='last' would keep
LastOccurrences(rows, c) ==
    {i \in DOMAIN rows :
        \A j \in (i + 1)..Len(rows) : rows[j][c] # rows[i][c]}

\* the positions df.drop_duplicates(subset=c, keep='first') keeps
FirstOccurrences(rows, c) ==
    {i \in DOMAIN rows : \A j \in 1..(i - 1) : rows[j][c] # rows[i][c]}

drop_duplicates(df, c) ==
    Frame(df.cols, RowsAt(df.rows, FirstOccurrences(df.rows, c), 1))

\* the orders df.sort_values(by=c) can leave the rows in: ascending in c,
\* rows of equal c in any order (the default quicksort is not stable)
SortOrders(rows, c) ==
    {p \in [DOMAIN rows -> DOMAIN rows] :
        /\ \A i, j \in DOMAIN rows : i # j => p[i] # p[j]
        /\ \A i, j \in DOMAIN rows : i < j => rows[p[i]][c] <= rows[p[j]][c]}

sort_values(df, c) ==
    {Frame(df.cols, [i \in DOMAIN df.rows |-> df.rows[p[i]]]) :
        p \in SortOrders(df.rows, c)}

\* df.set_index(c): column c becomes the labels
set_index(df, c) ==
    Frame(df.cols \ {c},
          [i \in DOMAIN df.rows |->
              WithoutCol(WithCol(df.rows[i], IDX, df.rows[i][c]), c)])

\* del df[c]
DelColumn(df, c) ==
    IF c \in df.cols
    THEN Ok(Frame(df.cols \ {c},
                  [i \in DOMAIN df.rows |-> WithoutCol(df.rows[i], c)]))
    ELSE Raise(KeyError(c))

----------------------------------------------------------------------------
(* dropDuplicates *)

\* a value that is not below every propID of the frame
AboveMinPropID(df) ==
    IF df.rows = <<>> THEN 0 ELSE Min(Range(Column(df, "propID"))) + 2

\* df.propID.min(); nan, which equals no ID, when there are no rows
MinPropID(df) ==
    IF df.rows = <<>> THEN 0 ELSE Min(Range(Column(df, "propID")))

\* df.reset_index() cannot insert the labels: the names index and level_0
\* are both taken, and DataFrame.insert raises ValueError
CannotResetIndex(df) == {"index", "level_0"} \subseteq df.cols

\* lines 229-230 without the call of drop_duplicates
ResetOnly(df) == reset_index(df)

\* lines 229-230: the rows that survive the removal of duplicates
DropStep(df) == drop_duplicates(reset_index(df), "obsHistID")

\* line 239 left out
NoSort(df) == {df}

\* line 239: the frames the final sort can leave
SortStep(df) == sort_values(df, "expMJD")

\* the frames dropDuplicates can return, or the exception it raises
dropDuplicates(df, propIDDict, opsimversion) ==
    IF opsimversion = "sstf" THEN {Ok(df)}
    ELSE IF ~HasRole(propIDDict, oss_ddfName) THEN {Raise(KeyError("ddf"))}
    ELSE IF ~HasRole(propIDDict, oss_wfdName) THEN {Raise(KeyError("wfd"))}
    ELSE IF CannotResetIndex(df) THEN {Raise("ValueError")}
    ELSE
        LET minPropID == MinPropID(df)
            ddfID == propIDDict[oss_ddfName]
            wfdID == propIDDict[oss_wfdName]
            ddfPropID == minPropID - 1
            wfdPropID == minPropID - 2
            ddfmask == Mask(df, "propID", ddfID)
            wfdmask == Mask(df, "propID", wfdID)
            df1 == SetWhere(df, ddfmask, "propID", ddfPropID)
            df2 == SetWhere(df1, wfdmask, "propID", wfdPropID)
            df3 == DropStep(df2)
            ddfmask2 == Mask(df3, "propID", ddfPropID)
            wfdmask2 == Mask(df3, "propID", wfdPropID)
            df4 == SetWhere(df3, ddfmask2, "propID", ddfID)
            df5 == SetWhere(df4, wfdmask2, "propID", wfdID)
        IN {Ok(s) : s \in SortStep(df5)}

----------------------------------------------------------------------------
(* OpSimOutput.__init__, propIds and writeOpSimHDF *)

\* lines 64-67: the rows labelled like a row of proposal ddfPropID get
\* their field centre as dithered position (.loc selects by label)
ZeroDithers(summary, ddfPropID) ==
    LET ddfidx == {summary.rows[i][IDX] : i \in Mask(summary, "propID", ddfPropID)}
        zeroed(row) ==
            WithCol(WithCol(row, "ditheredRA", row["fieldRA"]),
                    "ditheredDec", row["fieldDec"])
    IN [summary EXCEPT !.rows =
            [i \in DOMAIN summary.rows |->
                IF summary.rows[i][IDX] \in ddfidx
                THEN zeroed(summary.rows[i]) ELSE summary.rows[i]]]

\* lines 54-58: the flag as __init__ uses it
EffectiveZeroDDFDithers(zeroDDFDithers, opsimversion) ==
    IF opsimversion \in {"sstf", "lsstv4"} THEN FALSE ELSE zeroDDFDithers

\* lines 73-75: radians are copied
Unchanged(x) == x

\* lines 69-77: the columns _ra and _dec
WithRaDec(summary, angleUnits) ==
    LET conv(x) == IF angleUnits = "degrees" THEN Radians(x) ELSE Unchanged(x)
    IN
    Frame(summary.cols \cup {"_ra", "_dec"},
          [i \in DOMAIN summary.rows |->
              WithCol(WithCol(summary.rows[i],
                              "_ra", conv(summary.rows[i]["ditheredRA"])),
                      "_dec", conv(summary.rows[i]["ditheredDec"]))])

\* the instance __init__ builds, or the exception it raises
OpSimOutput(summary, propIDDict, proposalTable, subset, propIDs, zeroDDFDithers, opsimversion) ==
    LET zero == EffectiveZeroDDFDithers(zeroDDFDithers, opsimversion)
        units == get_opsimVariablesForVersion(opsimversion).angleUnits
        instance(s) ==
            [opsimversion |-> opsimversion,
             propIDDict |-> propIDDict,
             proposalTable |-> proposalTable,
             summary |-> s,
             subset |-> subset,
             _propID |-> propIDs]
    IN IF zero /\ ~HasRole(propIDDict, oss_ddfName)
       THEN Raise(KeyError("ddf"))
       ELSE LET s1 == IF zero
                      THEN ZeroDithers(summary, propIDDict[oss_ddfName])
                      ELSE summary
            IN IF units \in {"degrees", "radians"}
               THEN Ok(instance(WithRaDec(s1, units)))
               ELSE Raise("ValueError")

\* the property propIds
propIds(self) ==
    IF ~IsNone(self._propID) THEN Ok(self._propID)
    ELSE IF ~IsNone(self.subset)
    THEN propIDVals(Get(self.subset), self.propIDDict, self.proposalTable)
    ELSE Ok(None)

\* writeOpSimHDF without the test of lines 325-326
WriteAnySubset(self) ==
    IF IsNone(self.proposalTable)
    THEN [err |-> "AttributeError: to_hdf", written |-> <<"Summary">>]
    ELSE [err |-> "", written |-> <<"Summary", "Proposal">>]

\* writeOpSimHDF: the keys it writes, in order, and how it ends
writeOpSimHDF(self) ==
    IF self.subset # Some("_all")
    THEN [err |-> "ValueError", written |-> <<>>]
    ELSE IF IsNone(self.proposalTable)
    THEN [err |-> "AttributeError: to_hdf", written |-> <<"Summary">>]
    ELSE [err |-> "", written |-> <<"Summary", "Proposal">>]

----------------------------------------------------------------------------
(* fromOpSimDB *)

\* what a call of fromOpSimDB leaves: how it ended, and what it had
\* computed by then
Result(o, pd, ids, rf, cat) ==
    [outcome |-> o, propDict |-> pd, derivedIDs |-> ids, readFrame |-> rf,
     catalog |-> cat]

\* lines 152-170: the storage read
ReadSummary(table, subset, propIDs, opsimVars) ==
    IF subset \in {"_all", "unique_all"}
    THEN read_sql_table(table)
    ELSE read_sql_query(table, opsimVars.propIDNameInSummary, Get(propIDs))

\* lines 181-192, from the renamed frame on
Finish(summary0, read, subset, propDict, proposals, _propIDs, zeroDDFDithers, opsimversion) ==
    LET deduped == IF subset # "_all"
                   THEN dropDuplicates(summary0, propDict, opsimversion)
                   ELSE {Ok(summary0)}
        rest(d) ==
            IF d.err # ""
            THEN Result(d.err, Some(propDict), _propIDs, Some(read), None)
            ELSE LET del == DelColumn(set_index(d.val, "obsHistID"), "index")
                 IN IF del.err # ""
                    THEN Result(del.err, Some(propDict), _propIDs,
                                Some(read), None)
                    ELSE LET new == OpSimOutput(del.val, propDict,
                                        Some(proposals), Some(subset), None,
                                        zeroDDFDithers, opsimversion)
                         IN IF new.err # ""
                            THEN Result(new.err, Some(propDict),
                                        _propIDs, Some(read), None)
                            ELSE Result("ok", Some(propDict), _propIDs,
                                        Some(read), Some(new.val))
    IN {rest(d) : d \in deduped}

\* the results a call of fromOpSimDB can have
fromOpSimDB(proposalTable, summaryTable, subset, propIDs, zeroDDFDithers, opsimversion) ==
    LET opsimVars == get_opsimVariablesForVersion(opsimversion)
    IN IF subset \notin get_allowed_subsets
       THEN {Result("NotImplementedError", None, None, None, None)}
       ELSE
       LET proposals == RelabelProposals(read_sql_table(proposalTable),
                                         opsimversion)
           propDict == get_propIDDict(read_sql_table(proposalTable),
                                      opsimversion)
           _propIDs == propIDVals(subset, propDict, Some(proposals))
       IN IF _propIDs.err # ""
          THEN {Result(_propIDs.err, Some(propDict), None, None, None)}
          ELSE
          LET over == _overrideSubsetPropID(propIDs, _propIDs.val)
          IN IF over.err # ""
             THEN {Result(over.err, Some(propDict), _propIDs.val,
                          None, None)}
             ELSE
             LET read == ReadSummary(summaryTable, subset, over.val, opsimVars)
                 summary0 == rename(read, replacedict(opsimVars))
             IN Finish(summary0, read, subset, propDict, proposals,
                       _propIDs.val, zeroDDFDithers, opsimversion)

----------------------------------------------------------------------------
(* The databases and the calls of the model *)

\* the proposal names a database of the version can hold: the two the
\* version's literals match (as OpSim writes them) and some they do not
ProposalNames(opsimversion) ==
    IF opsimversion = "lsstv3"
    THEN {<<"../", "conf/survey/", "Universal-18-0824B", ".conf">>,
          <<"../", "conf/survey/", "DDcosmology1", ".conf">>,
          <<"Universal-18-0824B">>,
          <<"DDcosmology1">>}
    ELSE {<<"WideFastDeep">>,
          <<"Deep", " ", "Drilling">>,
          <<"Deep", "Drilling", "Cosmology1">>}

ProposalRow(opsimversion, name, id) ==
    LET ov == get_opsimVariablesForVersion(opsimversion)
    IN [c \in {ov.propName, ov.propIDName} |->
            IF c = ov.propName THEN name ELSE id]

\* the Proposal tables: up to MaxProps proposals with distinct IDs
ProposalTables(opsimversion) ==
    {Frame({get_opsimVariablesForVersion(opsimversion).propName,
            get_opsimVariablesForVersion(opsimversion).propIDName},
           [i \in DOMAIN ns |-> ProposalRow(opsimversion, ns[i], ids[i])]) :
        <<ns, ids>> \in
            {pr \in SeqsUpTo(ProposalNames(opsimversion), MaxProps)
                      \X SeqsUpTo(PropIDs, MaxProps) :
                /\ Len(pr[1]) = Len(pr[2])
                /\ \A i, j \in DOMAIN pr[2] : i # j => pr[2][i] # pr[2][j]}}

\* a row of the summary table as the version names its columns (the seeing
\* and sky brightness columns, which nothing reads, left out); the field
\* centre depends on the pointing, the dither on the time
SummaryRow(opsimversion, o, p, t) ==
    IF opsimversion = "lsstv3"
    THEN [obsHistID |-> o, propID |-> p, expMJD |-> t,
          fieldRA |-> o - 10, fieldDec |-> o - 70,
          ditheredRA |-> o - 10 + t, ditheredDec |-> o - 70 + t]
    ELSE [observationId |-> o, proposalId |-> p, observationStartMJD |-> t,
          fieldRA |-> o - 10, fieldDec |-> o - 70]

SummaryCols(opsimversion) ==
    DOMAIN SummaryRow(opsimversion, 100, 1, 1)

\* the summary table with the rows of the keys <<pointing, proposal,
\* time>>, in order, and, when the table was written with its row numbers,
\* the column index holding them
SummaryTable(opsimversion, ks, withIndex) ==
    LET row(k) == SummaryRow(opsimversion, k[1], k[2], k[3])
    IN IF withIndex
       THEN Frame(SummaryCols(opsimversion) \cup {"index"},
                  [i \in DOMAIN ks |-> WithCol(row(ks[i]), "index", i - 1)])
       ELSE Frame(SummaryCols(opsimversion), [i \in DOMAIN ks |-> row(ks[i])])

\* the summary tables: up to MaxRows rows in any order
SummaryTables(opsimversion) ==
    {SummaryTable(opsimversion, ks, withIndex) :
        ks \in SeqsUpTo(PointingIDs \X PropIDs \X ExpMJDs, MaxRows),
        withIndex \in BOOLEAN}

\* the names OpSim gives the two proposals the version's literals match
WfdName(opsimversion) ==
    IF opsimversion = "lsstv3"
    THEN <<"../", "conf/survey/", "Universal-18-0824B", ".conf">>
    ELSE <<"WideFastDeep">>

DdfName(opsimversion) ==
    IF opsimversion = "lsstv3"
    THEN <<"../", "conf/survey/", "DDcosmology1", ".conf">>
    ELSE IF opsimversion = "sstf" THEN <<"Deep", " ", "Drilling">>
    ELSE <<"Deep", "Drilling", "Cosmology1">>

\* the IDs <<wfd, ddf>> of the two proposals in the runs with one proposal
\* of each role: any other ID of PropIDs belongs to a third proposal
RoleIDs == {<<1, 2>>, <<3, 2>>}

\* the Proposal tables of the runs with one proposal of each role
RoleProposalTables(opsimversion) ==
    {Frame({get_opsimVariablesForVersion(opsimversion).propName,
            get_opsimVariablesForVersion(opsimversion).propIDName},
           <<ProposalRow(opsimversion, WfdName(opsimversion), ids[1]),
             ProposalRow(opsimversion, DdfName(opsimversion), ids[2])>>) :
        ids \in RoleIDs}

\* the summary tables of the end-to-end scenario: pointing 100 logged under
\* proposal 1 and under proposal 2, in this order, at any times
ScenarioSummaryTables(opsimversion) ==
    {SummaryTable(opsimversion, <<<<100, 1, t1>>, <<100, 2, t2>>>>, withIndex) :
        t1 \in ExpMJDs, t2 \in ExpMJDs, withIndex \in BOOLEAN}

\* the explicit propIDs a caller passes
ExplicitPropIDs == {<<1, 3>>}

----------------------------------------------------------------------------
(* The state machine *)

NothingDone ==
    /\ args = None
    /\ outcome = "idle"
    /\ roleMap = None
    /\ derived = None
    /\ fetched = None
    /\ obj = None
    /\ hdf = <<>>
    /\ writeOutcome = "none"
    /\ dedupe = None

\* a database of a run with one proposal of each role, any summary table
Init ==
    /\ dbVersion \in Versions
    /\ dbProposal \in RoleProposalTables(dbVersion)
    /\ dbSummary \in SummaryTables(dbVersion)
    /\ NothingDone

\* a database with any Proposal table and the scenario's summary table
InitProposals ==
    /\ dbVersion \in Versions
    /\ dbProposal \in ProposalTables(dbVersion)
    /\ dbSummary \in ScenarioSummaryTables(dbVersion)
    /\ NothingDone

\* the call OpSimOutput.fromOpSimDB(dbname, subset, propIDs=propIDs,
\* zeroDDFDithers=zeroDDFDithers, opsimversion=...) on the database
CallFromOpSimDB(subset, propIDs, zeroDDFDithers) ==
    /\ outcome = "idle"
    /\ \E r \in fromOpSimDB(dbProposal, dbSummary, subset, propIDs,
                            zeroDDFDithers, dbVersion) :
            /\ args' = Some([via |-> "fromOpSimDB", subset |-> Some(subset),
                             propIDs |-> propIDs,
                             zeroDDFDithers |-> zeroDDFDithers])
            /\ outcome' = r.outcome
            /\ roleMap' = r.propDict
            /\ derived' = r.derivedIDs
            /\ fetched' = r.readFrame
            /\ obj' = r.catalog
    /\ UNCHANGED <<dbVersion, dbProposal, dbSummary, hdf, writeOutcome,
                   dedupe>>

\* fromOpSimDB called with a subset alone
FromOpSimDB ==
    \E subset \in get_allowed_subsets, zeroDDFDithers \in BOOLEAN :
        CallFromOpSimDB(subset, None, zeroDDFDithers)

\* fromOpSimDB called with a subset and explicit propIDs
FromOpSimDBWithPropIDs ==
    \E subset \in get_allowed_subsets, propIDs \in ExplicitPropIDs,
       zeroDDFDithers \in BOOLEAN :
        CallFromOpSimDB(subset, Some(propIDs), zeroDDFDithers)

\* the call OpSimOutput(summary=..., propIDDict=..., proposalTable=...,
\* subset=subset, zeroDDFDithers=zeroDDFDithers, opsimversion=...) on the
\* whole summary table, indexed by obsHistID, and the Proposal table
New ==
    /\ outcome = "idle"
    /\ \E subset \in {None} \cup {Some(x) : x \in get_allowed_subsets},
          zeroDDFDithers \in BOOLEAN :
        LET ov == get_opsimVariablesForVersion(dbVersion)
            proposals == RelabelProposals(read_sql_table(dbProposal), dbVersion)
            propIDDict == get_propIDDict(read_sql_table(dbProposal), dbVersion)
            read == read_sql_table(dbSummary)
            summary == set_index(rename(read, replacedict(ov)), "obsHistID")
            new == OpSimOutput(summary, propIDDict, Some(proposals), subset,
                               None, zeroDDFDithers, dbVersion)
        IN /\ args' = Some([via |-> "__init__", subset |-> subset,
                            propIDs |-> None,
                            zeroDDFDithers |-> zeroDDFDithers])
           /\ outcome' = IF new.err = "" THEN "ok" ELSE new.err
           /\ roleMap' = Some(propIDDict)
           /\ derived' = None
           /\ fetched' = Some(read)
           /\ obj' = IF new.err = "" THEN Some(new.val) ELSE None
    /\ UNCHANGED <<dbVersion, dbProposal, dbSummary, hdf, writeOutcome,
                   dedupe>>

\* self.writeOpSimHDF(hdfName) on the instance constructed
WriteOpSimHDF ==
    /\ ~IsNone(obj)
    /\ writeOutcome = "none"
    /\ LET w == writeOpSimHDF(Get(obj))
       IN /\ hdf' = hdf \o w.written
          /\ writeOutcome' = IF w.err = "" THEN "ok" ELSE w.err
    /\ UNCHANGED <<dbVersion, dbProposal, dbSummary, args, outcome, roleMap,
                   derived, fetched, obj, dedupe>>

Next == FromOpSimDB \/ WriteOpSimHDF

NextProposals == FromOpSimDB \/ FromOpSimDBWithPropIDs \/ WriteOpSimHDF

\* construction from the databases with one proposal of each role
Spec == Init /\ [][Next]_vars

\* construction from the databases with any Proposal table
SpecProposals == InitProposals /\ [][NextProposals]_vars

NextInstances == FromOpSimDB \/ New \/ WriteOpSimHDF

\* instances built by fromOpSimDB or by the constructor itself
SpecInstances == Init /\ [][NextInstances]_vars

\* the frame fromOpSimDB hands to dropDuplicates (line 183) when it has
\* read the whole summary table, and the dict it hands with it
DedupeFrame ==
    rename(read_sql_table(dbSummary),
           replacedict(get_opsimVariablesForVersion(dbVersion)))

DedupeDict == get_propIDDict(read_sql_table(dbProposal), dbVersion)

\* OpSimOutput.dropDuplicates(df, propIDDict, opsimversion) on that frame
DropDuplicates ==
    /\ outcome = "idle"
    /\ dedupe = None
    /\ \E r \in dropDuplicates(DedupeFrame, DedupeDict, dbVersion) :
          dedupe' = Some([df |-> DedupeFrame, once |-> r, twice |-> None])
    /\ UNCHANGED <<dbVersion, dbProposal, dbSummary, args, outcome, roleMap,
                   derived, fetched, obj, hdf, writeOutcome>>

\* OpSimOutput.dropDuplicates on the frame the first call returned
DropDuplicatesAgain ==
    /\ ~IsNone(dedupe)
    /\ Get(dedupe).once.err = ""
    /\ IsNone(Get(dedupe).twice)
    /\ \E r \in dropDuplicates(Get(dedupe).once.val, DedupeDict, dbVersion) :
          dedupe' = Some([Get(dedupe) EXCEPT !.twice = Some(r)])
    /\ UNCHANGED <<dbVersion, dbProposal, dbSummary, args, outcome, roleMap,
                   derived, fetched, obj, hdf, writeOutcome>>

NextDedupe == DropDuplicates \/ DropDuplicatesAgain

\* dropDuplicates called by itself, once and again on its own result
SpecDedupe == Init /\ [][NextDedupe]_vars

----------------------------------------------------------------------------
(* What the properties speak of *)

\* fromOpSimDB has been called
ViaDB == ~IsNone(args) /\ Get(args).via = "fromOpSimDB"

\* fromOpSimDB has returned a catalog
Constructed == ViaDB /\ outcome = "ok"

\* the subset asked for
AskedSubset == Get(Get(args).subset)

\* the catalog's records, and its pointing IDs in order (summary.index)
CatRows == Get(obj).summary.rows
CatPointingIDs == Column(Get(obj).summary, IDX)

\* the pointing IDs of the rows the storage read returned, in order
ReadPointingIDs ==
    Column(Get(fetched), get_opsimVariablesForVersion(dbVersion).obsHistID)

NoDuplicates(ids) == \A i, j \in DOMAIN ids : i # j => ids[i] # ids[j]

Ascending(rows, c) ==
    \A i, j \in DOMAIN rows : i < j => rows[i][c] <= rows[j][c]

\* the positions of the rows read for pointing o under proposal p
ReadFor(o, p) ==
    LET ov == get_opsimVariablesForVersion(dbVersion)
    IN {i \in DOMAIN Get(fetched).rows :
            /\ Get(fetched).rows[i][ov.obsHistID] = o
            /\ Get(fetched).rows[i][ov.propIDNameInSummary] = p}

\* the row of the summary table a record of the catalog comes from
Original(row) ==
    SummaryRow(dbVersion, row[IDX], row["propID"], row["expMJD"])

----------------------------------------------------------------------------
(* C1 *)

----------------------------------------------------------------------------
(* C2 *)

\* C2, for the versions that drop duplicates: when the read returns a
\* pointing once under wfd and once under ddf, at different times, the
\* catalog of subset combined holds exactly the wfd record of it, whatever
\* the order of the two rows and whichever is earlier.
C2_WfdRecordKept ==
    (Constructed /\ AskedSubset = "combined" /\ dbVersion # "sstf") =>
        \A o \in PointingIDs :
            LET ov == get_opsimVariablesForVersion(dbVersion)
                wfd == ReadFor(o, Get(roleMap)[oss_wfdName])
                ddf == ReadFor(o, Get(roleMap)[oss_ddfName])
                time(S) == Get(fetched).rows[CHOOSE i \in S : TRUE][ov.expMJD]
                kept == {i \in DOMAIN CatRows : CatRows[i][IDX] = o}
            IN (/\ Cardinality(wfd) = 1
                /\ Cardinality(ddf) = 1
                /\ time(wfd) # time(ddf)) =>
                    /\ Cardinality(kept) = 1
                    /\ \A i \in kept :
                          /\ CatRows[i]["propID"] = Get(roleMap)[oss_wfdName]
                          /\ CatRows[i]["expMJD"] = time(wfd)

----------------------------------------------------------------------------
(* C3 *)

\* the scenario's call: version lsstv3, subset combined, no explicit
\* propIDs, on the scenario's summary table
ScenarioCall ==
    /\ ViaDB
    /\ dbVersion = "lsstv3"
    /\ AskedSubset = "combined"
    /\ IsNone(Get(args).propIDs)
    /\ dbSummary \in ScenarioSummaryTables("lsstv3")

\* the Proposal table holds n1 with ID 1 and n2 with ID 2
ScenarioProposals(n1, n2) ==
    dbProposal.rows = <<ProposalRow("lsstv3", n1, 1),
                        ProposalRow("lsstv3", n2, 2)>>

\* construction succeeded with one record, of pointing 100 and proposal 1
OneRecordOfProposal1 ==
    /\ outcome = "ok"
    /\ Len(CatRows) = 1
    /\ CatRows[1][IDX] = 100
    /\ CatRows[1]["propID"] = 1

----------------------------------------------------------------------------
(* C4 *)

\* C4 as stated: for every version and every subset, the records of a
\* constructed catalog are in ascending order of exposure time.
C4_AlwaysAscending == Constructed => Ascending(CatRows, "expMJD")

\* C4, amended: for the versions lsstv3 and lsstv4 and every subset other
\* than _all, the records of a constructed catalog are in ascending order
\* of exposure time, whatever the order of the read; for sstf, and for the
\* subset _all, they are in the order the storage read returned them.
C4_AscendingWhenDeduplicated ==
    Constructed =>
        IF dbVersion \in {"lsstv3", "lsstv4"} /\ AskedSubset # "_all"
        THEN Ascending(CatRows, "expMJD")
        ELSE CatPointingIDs = ReadPointingIDs

\* two pointings read latest first, both in the catalog
C4_Witness ==
    /\ Constructed
    /\ dbVersion = "lsstv3"
    /\ AskedSubset # "_all"
    /\ Len(Get(fetched).rows) = 2
    /\ Get(fetched).rows[1]["expMJD"] > Get(fetched).rows[2]["expMJD"]
    /\ Len(CatRows) = 2

----------------------------------------------------------------------------
(* C5 *)

\* C5: writeOpSimHDF succeeds if and only if the instance's subset is
\* _all; for any other subset, None included, it raises and writes no key;
\* for _all it writes the keys Summary and Proposal.
C5_WriteOnlyAll ==
    writeOutcome # "none" =>
        IF Get(obj).subset = Some("_all")
        THEN writeOutcome = "ok" /\ hdf = <<"Summary", "Proposal">>
        ELSE writeOutcome = "ValueError" /\ hdf = <<>>

\* an instance of subset _all written
C5_Witness ==
    /\ writeOutcome = "ok"
    /\ Get(obj).subset = Some("_all")
    /\ Len(hdf) = 2

----------------------------------------------------------------------------
(* C6 *)

\* C6: when explicit propIDs that differ, as a set, from the subset's are
\* passed, construction is not aborted for it, and in the catalog returned
\* the rows read are those of the explicit propIDs, for every subset, and
\* propIds are the explicit ones.
C6_ExplicitIDsUsed ==
    (/\ ViaDB
     /\ ~IsNone(Get(args).propIDs)
     /\ ~IsNone(derived)
     /\ Range(Get(Get(args).propIDs)) # Range(Get(derived))) =>
        LET explicit == Get(Get(args).propIDs)
            col == get_opsimVariablesForVersion(dbVersion).propIDNameInSummary
            wanted(row) == row[col] \in Range(explicit)
        IN /\ outcome # "Warning"
           /\ outcome = "ok" =>
                 /\ Get(fetched).rows =
                        Relabelled(SelectSeq(dbSummary.rows, wanted))
                 /\ propIds(Get(obj)) = Ok(Some(explicit))

----------------------------------------------------------------------------
(* C7 *)

\* the IDs of the Proposal table
ProposalIDs ==
    Range(Column(dbProposal,
                 get_opsimVariablesForVersion(dbVersion).propIDName))

\* C7: for every version, propIDVals returns, for _all and unique_all, the
\* IDs of the Proposal table, and for combined the ddf and the wfd ID.
C7_ResolvedIDs ==
    (ViaDB /\ ~IsNone(roleMap)) =>
        /\ AskedSubset \in {"_all", "unique_all"} =>
              ~IsNone(derived) /\ Range(Get(derived)) = ProposalIDs
        /\ (/\ AskedSubset = "combined"
            /\ HasRole(Get(roleMap), oss_ddfName)
            /\ HasRole(Get(roleMap), oss_wfdName)) =>
              /\ ~IsNone(derived)
              /\ Range(Get(derived)) = {Get(roleMap)[oss_ddfName],
                                        Get(roleMap)[oss_wfdName]}

----------------------------------------------------------------------------
(* C8 *)

\* C8: a role missing from propIDDict ends construction only when the
\* subset needs it: with wfd present and ddf absent the subset wfd does not
\* fail for the role (and likewise ddf with only ddf present), while
\* combined does.
C8_RoleNeededOnly ==
    (ViaDB /\ ~IsNone(roleMap) /\ IsNone(Get(args).propIDs)) =>
        LET hasWfd == HasRole(Get(roleMap), oss_wfdName)
            hasDdf == HasRole(Get(roleMap), oss_ddfName)
        IN /\ (AskedSubset = "wfd" /\ hasWfd /\ ~hasDdf)
                 => ~UnknownRole(outcome)
           /\ (AskedSubset = "ddf" /\ hasDdf /\ ~hasWfd)
                 => ~UnknownRole(outcome)
           /\ (AskedSubset = "combined" /\ hasWfd # hasDdf)
                 => UnknownRole(outcome)

----------------------------------------------------------------------------
(* C9 *)

\* the positions of the proposals get_propIDDict takes for the role
MatchesOf(role) ==
    LET ov == get_opsimVariablesForVersion(dbVersion)
        name(i) == dbProposal.rows[i][ov.propName]
    IN {i \in DOMAIN dbProposal.rows :
            IF role = oss_wfdName
            THEN Contains(ov.ops_wfdname, name(i))
            ELSE /\ ~Contains(ov.ops_wfdname, name(i))
                 /\ Contains(ov.ops_ddfname, name(i))}

IDOf(i) ==
    dbProposal.rows[i][get_opsimVariablesForVersion(dbVersion).propIDName]

\* the IDs a value of propIDDict holds: it is one integer
IDsIn(value) == {value}

----------------------------------------------------------------------------
(* C10 *)

\* C10: with lsstv3 and zeroDDFDithers, every record of the ddf proposal
\* has its dithered and canonical position at its field centre and every
\* other record keeps its dithered position; with sstf and lsstv4 no
\* position is overwritten.
C10_OnlyDdfZeroed ==
    Constructed =>
        \A i \in DOMAIN CatRows :
            LET row == CatRows[i]
                ov == get_opsimVariablesForVersion(dbVersion)
            IN IF dbVersion = "lsstv3"
               THEN Get(args).zeroDDFDithers =>
                      IF row["propID"] = Get(roleMap)[oss_ddfName]
                      THEN /\ row["ditheredRA"] = row["fieldRA"]
                           /\ row["ditheredDec"] = row["fieldDec"]
                           /\ row["_ra"] = row["fieldRA"]
                           /\ row["_dec"] = row["fieldDec"]
                      ELSE /\ row["ditheredRA"] = Original(row)["ditheredRA"]
                           /\ row["ditheredDec"] = Original(row)["ditheredDec"]
               ELSE /\ row["ditheredRA"] = Original(row)[ov.pointingRA]
                    /\ row["ditheredDec"] = Original(row)[ov.pointingDec]

----------------------------------------------------------------------------
(* C11 *)

\* dropDuplicates was called and returned a frame
DedupedOnce == ~IsNone(dedupe) /\ Get(dedupe).once.err = ""

\* dropDuplicates was called again, on the frame it had returned
DedupedTwice == DedupedOnce /\ ~IsNone(Get(dedupe).twice)

\* the records of a frame, in order: its rows on the given columns
Records(frame, cols) ==
    [i \in DOMAIN frame.rows |-> [c \in cols |-> frame.rows[i][c]]]

\* C11: dropDuplicates is idempotent: with both roles in propIDDict, the
\* call on the frame a first call returned returns too, and its frame has
\* the same records in the same order as the frame it was given.
C11_Idempotent ==
    DedupedTwice =>
        LET once == Get(dedupe).once.val
            twice == Get(Get(dedupe).twice)
        IN /\ twice.err = ""
           /\ twice.val.cols = once.cols
           /\ Records(twice.val, once.cols) = Records(once, once.cols)

----------------------------------------------------------------------------
(* C12 *)

\* the frame dropDuplicates was given and the frame it returned
DedupeIn == Get(dedupe).df
DedupeOut == Get(dedupe).once.val

\* the row of the frame dropDuplicates returned is, on the columns of the
\* frame it was given, a row of that frame, propID included
IsInputRecord(row) ==
    \E j \in DOMAIN DedupeIn.rows :
        \A c \in DedupeIn.cols : row[c] = DedupeIn.rows[j][c]

\* C12: dropDuplicates neither invents nor relabels records: every record
\* it returns is a record it was given, with the propID it had (the
\* temporary propIDs minPropID - 1 and minPropID - 2 are in no record
\* returned, and no record of a third proposal is changed), and the
\* pointings returned are the pointings given.
C12_RecordsKept ==
    DedupedOnce =>
        /\ \A i \in DOMAIN DedupeOut.rows :
              /\ IsInputRecord(DedupeOut.rows[i])
              /\ \A j \in DOMAIN DedupeIn.rows :
                    DedupeOut.rows[i]["propID"] \notin
                        {DedupeIn.rows[j]["propID"] - 1,
                         DedupeIn.rows[j]["propID"] - 2}
                    \/ \E k \in DOMAIN DedupeIn.rows :
                          DedupeIn.rows[k]["propID"] < DedupeIn.rows[j]["propID"]
        /\ Range(Column(DedupeOut, "obsHistID")) =
               Range(Column(DedupeIn, "obsHistID"))

\* a pointing given under a role and under a third proposal whose propID
\* is the lowest, and one record of it returned
C12_Witness ==
    /\ DedupedOnce
    /\ dbVersion = "lsstv3"
    /\ Len(DedupeIn.rows) = 2
    /\ DedupeIn.rows[1]["obsHistID"] = DedupeIn.rows[2]["obsHistID"]
    /\ \E i, j \in 1..2 :
          /\ DedupeIn.rows[i]["propID"] \in Range(DedupeDict)
          /\ DedupeIn.rows[j]["propID"] \notin Range(DedupeDict)
          /\ DedupeIn.rows[j]["propID"] < DedupeIn.rows[i]["propID"]
    /\ Len(DedupeOut.rows) = 1

====
